---- MODULE Spec2Model ----
(***************************************************************************)
(* Payment challenge/proof protocol engine of the wallet analytics API:    *)
(* the gate middleware (both the X-PAYMENT-PROOF challenge/proof version   *)
(* and the X-PAYMENT version), PaymentValidator, the simulated and         *)
(* facilitator strategies, the shared cache (Nonce Store and validation    *)
(* cache) and the payment_proofs table (Settlement Ledger).                *)
(*                                                                         *)
(* Each request is a process; every await of the source is one step, so    *)
(* requests interleave exactly at the await points.  Time is in seconds    *)
(* and advances in ticks of TickSeconds.  Amounts are in micro-USDC.       *)
(***************************************************************************)
EXTENDS Integers, Sequences, FiniteSets, TLC

\* ------------------------------------------------------------------ bounds
MaxSlots == 2
MaxRequests == 3
MaxNonces == 1
MaxTicks == 1
TickSeconds == 300

\* ------------------------------------------------------- program constants
NonceTtlSeconds == 300
ValidationCacheTtlSeconds == 300
MockWindowMinutes == 5
MockAmountTolerance == 1000
MockMinSignatureLength == 10
PriceOverview == 10000
PricePortfolio == 50000
X402Version == 1

ErrNonce == "Invalid or expired nonce"
ErrReplay == "Payment proof already used (replay attack prevented)"
ErrAmount == "Amount mismatch"
ErrExpired == "Payment proof expired"
ErrSignature == "Invalid signature format"
ErrFacilitatorRejected == "Payment verification failed"
ErrSettlement == "Payment settlement failed"
ErrFacilitator == "Facilitator error"

\* --------------------------------------------------------------- the paths
\* A path is the sequence of its segments: "/" is << >>.
PathRoot == << >>
PathHealth == <<"health">>
PathOverview == <<"api", "v1", "wallet", "addr", "overview">>
PathPortfolio == <<"api", "v1", "wallet", "addr", "portfolio">>
PathRpc == <<"api", "v1", "rpc">>
RequestPaths == {PathRoot, PathHealth, PathOverview, PathPortfolio, PathRpc}

PricedKinds == {"overview", "portfolio", "activity", "risk"}
NoPrice == 0 - 1

\* Mutant of requiresPayment: only "/" is free.
requiresPayment_HealthPaid(path) ==
  IF path = PathRoot THEN FALSE ELSE TRUE

\* requiresPayment: "/" and "/health" are free, every "/api/..." is paid.
requiresPayment(path) ==
  IF path = PathRoot \/ path = PathHealth
  THEN FALSE
  ELSE Len(path) >= 2 /\ path[1] = "api"

\* The pricing table, keyed by the route pattern.
endpointPricing(path) ==
  IF path = <<"api", "v1", "wallet", ":address", "overview">> THEN PriceOverview
  ELSE IF path = <<"api", "v1", "wallet", ":address", "portfolio">> THEN PricePortfolio
  ELSE IF path = <<"api", "v1", "wallet", ":address", "activity">> THEN 100000
  ELSE IF path = <<"api", "v1", "wallet", ":address", "risk">> THEN 100000
  ELSE NoPrice

\* path.replace(/\/[A-Za-z0-9_-]+\/(overview|portfolio|activity|risk)/, ...):
\* the first segment followed by a priced kind becomes ":address".
normalizedPath(path) ==
  LET hits == {i \in 1..(Len(path) - 1) : path[i] # ":address" /\ path[i + 1] \in PricedKinds}
  IN IF hits = {} THEN path
     ELSE LET first == CHOOSE i \in hits : \A j \in hits : i <= j
          IN [k \in 1..Len(path) |-> IF k = first THEN ":address" ELSE path[k]]

\* getEndpointPrice: NoPrice stands for the thrown "No pricing configured".
getEndpointPrice(path) ==
  IF endpointPricing(path) # NoPrice
  THEN endpointPricing(path)
  ELSE endpointPricing(normalizedPath(path))

\* ------------------------------------------------------ proofs and results
ForgedNonce == 0
NoProof == [nonce |-> 0 - 1, amount |-> 0, sigLen |-> 0, timestamp |-> 0]
NoValidation ==
  [valid |-> FALSE, proof |-> NoProof, endpoint |-> PathRoot,
   verifiedAt |-> 0, error |-> "", txHash |-> "", networkId |-> ""]

Invalid(proof, endpoint, at, err) ==
  [valid |-> FALSE, proof |-> proof, endpoint |-> endpoint,
   verifiedAt |-> at, error |-> err, txHash |-> "", networkId |-> ""]

Valid(proof, endpoint, at, tx) ==
  [valid |-> TRUE, proof |-> proof, endpoint |-> endpoint,
   verifiedAt |-> at, error |-> "", txHash |-> tx, networkId |-> ""]

Abs(x) == IF x < 0 THEN 0 - x ELSE x

\* Mutant of MockValidate: the age is checked before the amount.
MockValidate_AgeFirst(proof, expectedAmount, endpoint, at) ==
  IF at - proof.timestamp > MockWindowMinutes * 60
  THEN Invalid(proof, endpoint, at, ErrExpired)
  ELSE IF Abs(proof.amount - expectedAmount) > MockAmountTolerance
  THEN Invalid(proof, endpoint, at, ErrAmount)
  ELSE IF proof.sigLen < MockMinSignatureLength
  THEN Invalid(proof, endpoint, at, ErrSignature)
  ELSE Valid(proof, endpoint, at, "")

\* MockPaymentValidator.validatePayment: amount, then age, then signature.
\* ageMinutes > 5 is (now - timestamp) / 60 > 5 on reals.
MockValidate(proof, expectedAmount, endpoint, at) ==
  IF Abs(proof.amount - expectedAmount) > MockAmountTolerance
  THEN Invalid(proof, endpoint, at, ErrAmount)
  ELSE IF at - proof.timestamp > MockWindowMinutes * 60
  THEN Invalid(proof, endpoint, at, ErrExpired)
  ELSE IF proof.sigLen < MockMinSignatureLength
  THEN Invalid(proof, endpoint, at, ErrSignature)
  ELSE Valid(proof, endpoint, at, "")

\* No call of the strategy in progress.
NoMockCall == [pc |-> "none", proof |-> NoProof, expectedAmount |-> 0, result |-> NoValidation]
NoChainCall == [pc |-> "none"]
NoDatabase == [pc |-> "none"]
NoRetryCall == [pc |-> "none"]
NoProcess == [pc |-> "none"]

\* ------------------------------------------------------------------- state
VARIABLES
  gate,             \* which version of x402PaymentMiddleware the app registers
  mode,             \* config.payment.mode
  cacheConnected,   \* CacheService.client /\ isConnected after connect()
  now,              \* wall clock, seconds
  nonceStore,       \* cache keys payment:nonce:<nonce>
  validationCache,  \* cache keys payment:validated:<nonce>:<endpoint>
  ledger,           \* rows of payment_proofs (nonce UNIQUE)
  nextNonce,        \* next value generateNonce returns
  started,          \* requests received so far
  req,              \* the requests in flight, one per slot
  granted,          \* history: proof requests answered 200
  mockCall,         \* one call of MockPaymentValidator.validatePayment
  chain,            \* one call of verifyOnChainPayment
  db,               \* the DatabaseService singleton and the calls made on it
  retry,            \* one call of withRetry
  proc              \* the server process once it listens, and its shutdown

vars ==
  <<gate, mode, cacheConnected, now, nonceStore, validationCache, ledger,
    nextNonce, started, req, granted, mockCall, chain, db, retry, proc>>

\* The state of the gate and of PaymentValidator.
gateVars ==
  <<gate, mode, cacheConnected, now, nonceStore, validationCache, ledger,
    nextNonce, started, req, granted>>

Slots == 1..MaxSlots
ProofGateModes == {"mock", "test", "payai"}
XPaymentGateModes == {"mock", "onchain", "payai"}

IdleRequest ==
  [pc |-> "idle", path |-> PathRoot, header |-> "none", proof |-> NoProof,
   xVersion |-> 0, price |-> 0, validation |-> NoValidation, status |-> 0,
   handlerRan |-> FALSE, challenge |-> 0 - 1, lookup |-> "none", peek |-> "none",
   existsRes |-> "none", insertRes |-> "none", stratCalls |-> 0,
   verifyRes |-> "none", settleRes |-> "none", verifyCalls |-> 0, settleCalls |-> 0,
   ioError |-> FALSE, returned |-> FALSE, priorGranted |-> {}, signature |-> "",
   afterCrash |-> FALSE]

Init ==
  /\ gate \in {"proof", "xpayment"}
  /\ mode \in (IF gate = "proof" THEN ProofGateModes ELSE XPaymentGateModes)
  /\ cacheConnected \in BOOLEAN
  /\ now = 0
  /\ nonceStore = {}
  /\ validationCache = {}
  /\ ledger = {}
  /\ nextNonce = 1
  /\ started = 0
  /\ req = [s \in Slots |-> IdleRequest]
  /\ granted = {}
  /\ mockCall = NoMockCall
  /\ chain = NoChainCall
  /\ db = NoDatabase
  /\ retry = NoRetryCall
  /\ proc = NoProcess

\* ------------------------------------------------------------ CacheService
\* get: null when not connected, when the call throws, or when the key is
\* absent or past its TTL.  The result is a set with at most one element.
CacheGetNonce(nonce, ok) ==
  IF cacheConnected /\ ok
  THEN {e \in nonceStore : e.nonce = nonce /\ now < e.expires}
  ELSE {}

CacheGetValidation(nonce, endpoint, ok) ==
  IF cacheConnected /\ ok
  THEN {e \in validationCache : e.nonce = nonce /\ e.endpoint = endpoint /\ now < e.expires}
  ELSE {}

\* set with setex: replaces the key; nothing happens when not connected or
\* when the call throws (the error is logged).
CacheSetNonce(store, nonce, endpoint, amount, ok) ==
  IF cacheConnected /\ ok
  THEN {e \in store : e.nonce # nonce}
         \cup {[nonce |-> nonce, endpoint |-> endpoint, amount |-> amount,
                created |-> now, expires |-> now + NonceTtlSeconds]}
  ELSE store

\* Mutant of CacheSetValidation: the key is the nonce alone.
CacheSetValidation_NonceKey(cache, value, endpoint, ok) ==
  IF cacheConnected /\ ok
  THEN {e \in cache : e.nonce # value.proof.nonce}
         \cup {[nonce |-> value.proof.nonce, endpoint |-> PathRoot, value |-> value,
                expires |-> now + ValidationCacheTtlSeconds]}
  ELSE cache

CacheSetValidation(cache, value, endpoint, ok) ==
  IF cacheConnected /\ ok
  THEN {e \in cache : ~(e.nonce = value.proof.nonce /\ e.endpoint = endpoint)}
         \cup {[nonce |-> value.proof.nonce, endpoint |-> endpoint, value |-> value,
                expires |-> now + ValidationCacheTtlSeconds]}
  ELSE cache

CacheDeleteNonce(store, nonce, ok) ==
  IF cacheConnected /\ ok
  THEN {e \in store : e.nonce # nonce}
  ELSE store

\* --------------------------------------------------------- request inputs
IssuedNonces == 1..(nextNonce - 1)
ClientNonces == IssuedNonces \cup {ForgedNonce}
ClientAmounts == {PriceOverview}
ClientSigLens == {20}
ClientTimestamps == {0}
ClientProofs ==
  [nonce : ClientNonces, amount : ClientAmounts, sigLen : ClientSigLens,
   timestamp : ClientTimestamps]
\* What the x-payment-proof header can hold: nothing, something
\* parsePaymentProofHeader throws on, or a proof that passes the schema.
UndecodableHeaders == {"badBase64", "badJson", "outOfBounds", "wrongProtocol"}
ProofHeaders == {"none", "proof"} \cup UndecodableHeaders
XPaymentHeaders == {"none", "malformed", "xpay"}
XVersions == {1, 2}

\* A connection is free before its first request and once its reply is out;
\* requests take the free connections in order.
Free(s) == req[s].pc \in {"idle", "done"}
Accepts(s) == Free(s) /\ \A t \in Slots : (t < s) => req[t].pc # "idle"

\* The reply: r with the status set, the handler run on 200.
Reply(r, code) == [r EXCEPT !.pc = "done", !.status = code]
RunHandler(r) == [r EXCEPT !.pc = "done", !.status = 200, !.handlerRan = TRUE]

\* ----------------------------------------------- gate, challenge/proof version
\* The request arrives: everything x402PaymentMiddleware does before its
\* first await.  Free paths go to the handler, unpriced ones get 404.
GateEntry(r, nextPc) ==
  IF ~requiresPayment(r.path) THEN RunHandler(r)
  ELSE IF getEndpointPrice(r.path) = NoPrice THEN Reply(r, 404)
  ELSE [r EXCEPT !.price = getEndpointPrice(r.path), !.pc = nextPc]

\* parsePaymentProofHeader: Buffer.from(header, 'base64') never throws, a
\* header that is not base64 decodes to bytes JSON.parse throws on; a JSON
\* value outside paymentProofSchema makes the schema's parse throw.
parsePaymentProofHeader(header) ==
  IF header = "badBase64" \/ header = "badJson" THEN "throw"
  ELSE IF header = "wrongProtocol" \/ header = "outOfBounds" THEN "throw"
  ELSE "parsed"

\* Mutant of ProofGateAfterHeader: the parse error is not caught into a 400,
\* the gate goes on with the undecoded header.
ProofGateAfterHeader_NoParseCheck(r) ==
  IF r.header = "none" THEN "challenge" ELSE "getCached"

\* The gate's header checks once the path is priced.
ProofGateAfterHeader(r) ==
  IF r.header = "none" THEN "challenge"
  ELSE IF parsePaymentProofHeader(r.header) = "throw" THEN "reject400"
  ELSE "getCached"

\* A process died between writing the ledger row of this nonce and the nonce
\* delete.
CrashedAfterInsert(nonce) ==
  \E t \in Slots :
    req[t].pc = "crashed" /\ req[t].proof.nonce = nonce /\ req[t].insertRes = "inserted"

PriorGranted(proof) ==
  {[endpoint |-> g.endpoint, at |-> g.at] : g \in {h \in granted : h.proof = proof}}

StartProofRequest(s) ==
  /\ gate = "proof"
  /\ Accepts(s)
  /\ started < MaxRequests
  /\ \E path \in RequestPaths, header \in ProofHeaders, proof \in ClientProofs :
       LET r0 == [IdleRequest EXCEPT
                    !.path = path, !.header = header,
                    !.proof = IF header = "proof" THEN proof ELSE NoProof,
                    !.priorGranted = IF header = "proof" THEN PriorGranted(proof) ELSE {},
                    !.afterCrash = header = "proof" /\ CrashedAfterInsert(proof.nonce)]
           r1 == GateEntry(r0, ProofGateAfterHeader(r0))
       IN /\ header # "proof" => proof = CHOOSE q \in ClientProofs : TRUE
          /\ req' = [req EXCEPT ![s] = IF r1.pc = "reject400" THEN Reply(r1, 400) ELSE r1]
  /\ started' = started + 1
  /\ UNCHANGED <<db, retry, proc, mockCall, chain, gate, mode, cacheConnected, now, nonceStore, validationCache,
                 ledger, nextNonce, granted>>

\* PaymentValidator.createChallenge and the 402 reply.
CreateChallenge(s) ==
  /\ req[s].pc = "challenge"
  /\ nextNonce <= MaxNonces
  /\ \E ok \in BOOLEAN :
       nonceStore' = CacheSetNonce(nonceStore, nextNonce, req[s].path, req[s].price, ok)
  /\ nextNonce' = nextNonce + 1
  /\ req' = [req EXCEPT ![s] = [Reply(req[s], 402) EXCEPT !.challenge = nextNonce]]
  /\ UNCHANGED <<db, retry, proc, mockCall, chain, gate, mode, cacheConnected, now, validationCache, ledger,
                 started, granted>>

\* The gate's answer once it holds a validation.
GateRespond(r, validation) ==
  IF validation.valid
  THEN [RunHandler(r) EXCEPT !.validation = validation]
  ELSE [Reply(r, 403) EXCEPT !.validation = validation]

\* Mutants of AfterGetCached: the cache hit is ignored; test mode skips the
\* Nonce Store lookup as mock mode does.
AfterGetCached_IgnoreHit(r, hit, live) ==
  [r EXCEPT !.lookup = "miss", !.ioError = ~live,
            !.pc = IF mode # "mock" THEN "peek" ELSE "exists"]

AfterGetCached_SkipPeekInTest(r, hit, live) ==
  IF hit # {}
  THEN [GateRespond(r, (CHOOSE e \in hit : TRUE).value) EXCEPT !.lookup = "hit"]
  ELSE [r EXCEPT !.lookup = "miss", !.ioError = ~live,
                 !.pc = IF mode = "payai" THEN "peek" ELSE "exists"]

\* What the gate does with the result of getCachedPayment: a hit is answered
\* at once, a miss enters validatePayment.
AfterGetCached(r, hit, live) ==
  IF hit # {}
  THEN [GateRespond(r, (CHOOSE e \in hit : TRUE).value) EXCEPT !.lookup = "hit"]
  ELSE [r EXCEPT !.lookup = "miss", !.ioError = ~live,
                 !.pc = IF mode # "mock" THEN "peek" ELSE "exists"]

GetCached(s) ==
  /\ req[s].pc = "getCached"
  /\ \E ok \in BOOLEAN :
       req' = [req EXCEPT ![s] =
                 AfterGetCached(req[s],
                   CacheGetValidation(req[s].proof.nonce, req[s].path, ok),
                   cacheConnected /\ ok)]
  /\ granted' = IF req'[s].handlerRan
                THEN granted \cup {[proof |-> req[s].proof, endpoint |-> req[s].path, at |-> now]}
                ELSE granted
  /\ UNCHANGED <<db, retry, proc, mockCall, chain, gate, mode, cacheConnected, now, nonceStore, validationCache,
                 ledger, nextNonce, started>>

\* Mutant of AfterPeek: a missing nonce entry is not rejected.
AfterPeek_TolerateOutage(r, nonceData, live) ==
  IF nonceData = {} /\ live
  THEN [GateRespond(r, Invalid(r.proof, r.path, now, ErrNonce))
          EXCEPT !.peek = "absent", !.ioError = ~live, !.returned = TRUE]
  ELSE [r EXCEPT !.peek = IF nonceData = {} THEN "absent" ELSE "present",
                 !.ioError = ~live, !.pc = "exists"]

AfterPeek_AcceptAbsent(r, nonceData, live) ==
  [r EXCEPT !.peek = "present", !.ioError = FALSE, !.pc = "exists"]

\* validatePayment, the Nonce Store lookup (skipped in mock mode).
AfterPeek(r, nonceData, live) ==
  IF nonceData = {}
  THEN [GateRespond(r, Invalid(r.proof, r.path, now, ErrNonce))
          EXCEPT !.peek = "absent", !.ioError = ~live, !.returned = TRUE]
  ELSE [r EXCEPT !.peek = "present", !.ioError = FALSE, !.pc = "exists"]

Peek(s) ==
  /\ req[s].pc = "peek"
  /\ \E ok \in BOOLEAN :
       req' = [req EXCEPT ![s] =
                 AfterPeek(req[s], CacheGetNonce(req[s].proof.nonce, ok), cacheConnected /\ ok)]
  /\ UNCHANGED <<db, retry, proc, mockCall, chain, gate, mode, cacheConnected, now, nonceStore, validationCache,
                 ledger, nextNonce, started, granted>>

\* getPaymentByNonce: a failed query is logged and answered false.
getPaymentByNonce(nonce, ok) ==
  IF ok THEN \E row \in ledger : row.nonce = nonce ELSE FALSE

AfterExists(r, existing, ok) ==
  IF existing
  THEN [GateRespond(r, Invalid(r.proof, r.path, now, ErrReplay))
          EXCEPT !.existsRes = "present", !.ioError = FALSE, !.returned = TRUE]
  ELSE [r EXCEPT !.existsRes = "absent", !.ioError = ~ok,
                 !.stratCalls = r.stratCalls + 1,
                 !.pc = IF mode = "mock" THEN "mock" ELSE "verify"]

Exists(s) ==
  /\ req[s].pc = "exists"
  /\ \E ok \in BOOLEAN :
       req' = [req EXCEPT ![s] =
                 AfterExists(req[s], getPaymentByNonce(req[s].proof.nonce, ok), ok)]
  /\ UNCHANGED <<db, retry, proc, mockCall, chain, gate, mode, cacheConnected, now, nonceStore, validationCache,
                 ledger, nextNonce, started, granted>>

\* What validatePayment does with the strategy's result: a valid one goes on
\* to storePayment, an invalid one is returned to the gate.
\* Mutants of AfterStrategy: every result is stored, whatever its verdict;
\* a valid result goes straight to the nonce delete.
AfterStrategy_StoreAny(r, validation) ==
  [r EXCEPT !.validation = validation, !.ioError = FALSE, !.pc = "store"]

AfterStrategy_SkipStore(r, validation) ==
  IF validation.valid
  THEN [r EXCEPT !.validation = validation, !.ioError = FALSE, !.pc = "consume"]
  ELSE [GateRespond(r, validation) EXCEPT !.ioError = FALSE, !.returned = TRUE]

AfterStrategy(r, validation) ==
  IF validation.valid
  THEN [r EXCEPT !.validation = validation, !.ioError = FALSE, !.pc = "store"]
  ELSE [GateRespond(r, validation) EXCEPT !.ioError = FALSE, !.returned = TRUE]

MockStrategy(s) ==
  /\ req[s].pc = "mock"
  /\ req' = [req EXCEPT ![s] =
               AfterStrategy(req[s],
                 MockValidate(req[s].proof, req[s].price, req[s].path, now))]
  /\ UNCHANGED <<db, retry, proc, mockCall, chain, gate, mode, cacheConnected, now, nonceStore, validationCache,
                 ledger, nextNonce, started, granted>>

\* The facilitator's answers: /verify says valid or invalid, /settle says
\* success (with the transaction hash and network id) or failure; "throw" is
\* a network error, a non-2xx status or a body that is not JSON.
VerifyOutcomes == {"valid", "invalid", "throw"}
SettleOutcomes == {"success", "failure", "throw"}
SettleTxHash == "tx"
SettleNetworkId == "solana-devnet"

\* The verify request has been sent and answered.
Verified(r, outcome) ==
  [r EXCEPT !.verifyRes = outcome, !.verifyCalls = r.verifyCalls + 1]

\* Mutants of AfterVerify: settle is called whatever the verdict; a thrown
\* verify call is sent once more.
AfterVerify_SettleOnInvalid(r, outcome) ==
  IF outcome \in {"valid", "invalid"}
  THEN [Verified(r, outcome) EXCEPT !.ioError = FALSE, !.pc = "settle"]
  ELSE AfterStrategy(Verified(r, outcome), Invalid(r.proof, r.path, now, ErrFacilitator))

AfterVerify_Rethrow(r, outcome) ==
  IF outcome = "valid" THEN [Verified(r, outcome) EXCEPT !.ioError = FALSE, !.pc = "settle"]
  ELSE IF outcome = "invalid"
  THEN AfterStrategy(Verified(r, outcome),
                     Invalid(r.proof, r.path, now, ErrFacilitatorRejected))
  ELSE Reply(Verified(r, outcome), 500)

AfterVerify_RetryOnThrow(r, outcome) ==
  IF outcome = "valid" THEN [Verified(r, outcome) EXCEPT !.ioError = FALSE, !.pc = "settle"]
  ELSE IF outcome = "invalid"
  THEN AfterStrategy(Verified(r, outcome),
                     Invalid(r.proof, r.path, now, ErrFacilitatorRejected))
  ELSE IF r.verifyCalls = 0 THEN Verified(r, outcome)
  ELSE AfterStrategy(Verified(r, outcome), Invalid(r.proof, r.path, now, ErrFacilitator))

\* PayAIPaymentValidator.validatePayment, up to the verify call's result.
AfterVerify(r, outcome) ==
  IF outcome = "valid" THEN [Verified(r, outcome) EXCEPT !.ioError = FALSE, !.pc = "settle"]
  ELSE IF outcome = "invalid"
  THEN AfterStrategy(Verified(r, outcome),
                     Invalid(r.proof, r.path, now, ErrFacilitatorRejected))
  ELSE AfterStrategy(Verified(r, outcome), Invalid(r.proof, r.path, now, ErrFacilitator))

Verify(s) ==
  /\ req[s].pc = "verify"
  /\ \E outcome \in VerifyOutcomes :
       req' = [req EXCEPT ![s] = AfterVerify(req[s], outcome)]
  /\ UNCHANGED <<db, retry, proc, mockCall, chain, gate, mode, cacheConnected, now, nonceStore, validationCache,
                 ledger, nextNonce, started, granted>>

\* ... and from the settle call's result to the strategy's return.
Settled(r, outcome) ==
  [r EXCEPT !.settleRes = outcome, !.settleCalls = r.settleCalls + 1]

AfterSettle(r, outcome) ==
  IF outcome = "success"
  THEN AfterStrategy(Settled(r, outcome),
                     [Valid(r.proof, r.path, now, SettleTxHash)
                        EXCEPT !.networkId = SettleNetworkId])
  ELSE IF outcome = "failure"
  THEN AfterStrategy(Settled(r, outcome), Invalid(r.proof, r.path, now, ErrSettlement))
  ELSE AfterStrategy(Settled(r, outcome), Invalid(r.proof, r.path, now, ErrFacilitator))

\* Mutant of Settle: the strategy deletes the nonce itself once it has settled.
Settle_DeletesNonce(s) ==
  /\ req[s].pc = "settle"
  /\ \E outcome \in SettleOutcomes :
       /\ req' = [req EXCEPT ![s] = AfterSettle(req[s], outcome)]
       /\ nonceStore' = IF outcome = "success"
                        THEN CacheDeleteNonce(nonceStore, req[s].proof.nonce, TRUE)
                        ELSE nonceStore
  /\ UNCHANGED <<db, retry, proc, mockCall, chain, gate, mode, cacheConnected, now, validationCache,
                 ledger, nextNonce, started, granted>>

Settle(s) ==
  /\ req[s].pc = "settle"
  /\ \E outcome \in SettleOutcomes :
       req' = [req EXCEPT ![s] = AfterSettle(req[s], outcome)]
  /\ UNCHANGED <<db, retry, proc, mockCall, chain, gate, mode, cacheConnected, now, nonceStore, validationCache,
                 ledger, nextNonce, started, granted>>

\* storePayment: the INSERT fails when the query throws or when the nonce is
\* already there (UNIQUE); either way the error is logged and swallowed.
InsertOutcome(rows, nonce, ok) ==
  IF ~ok THEN "error"
  ELSE IF \E row \in rows : row.nonce = nonce THEN "duplicate"
  ELSE "inserted"

storePayment(rows, payment, ok) ==
  IF InsertOutcome(rows, payment.proof.nonce, ok) = "inserted"
  THEN rows \cup {[nonce |-> payment.proof.nonce, endpoint |-> payment.endpoint]}
  ELSE rows

\* What validatePayment does once storePayment has returned.
AfterStore(r, outcome) == [r EXCEPT !.insertRes = outcome, !.pc = "consume"]

Store(s) ==
  /\ req[s].pc = "store"
  /\ \E ok \in BOOLEAN :
       /\ ledger' = storePayment(ledger, req[s].validation, ok)
       /\ req' = [req EXCEPT ![s] =
                    AfterStore(req[s], InsertOutcome(ledger, req[s].proof.nonce, ok))]
  /\ UNCHANGED <<db, retry, proc, mockCall, chain, gate, mode, cacheConnected, now, nonceStore, validationCache,
                 nextNonce, started, granted>>

\* The process serving the request dies after storePayment has returned and
\* before the nonce delete: the request is never answered and its slot is
\* not reused.
Crash(s) ==
  /\ req[s].pc = "consume"
  /\ req' = [req EXCEPT ![s] = [req[s] EXCEPT !.pc = "crashed"]]
  /\ UNCHANGED <<db, retry, proc, mockCall, chain, gate, mode, cacheConnected, now, nonceStore, validationCache,
                 ledger, nextNonce, started, granted>>

\* cacheService.delete(nonceKey); validatePayment then returns the validation.
Consume(s) ==
  /\ req[s].pc = "consume"
  /\ \E ok \in BOOLEAN :
       nonceStore' = CacheDeleteNonce(nonceStore, req[s].proof.nonce, ok)
  /\ req' = [req EXCEPT ![s] = [req[s] EXCEPT !.returned = TRUE, !.pc = "cachePayment"]]
  /\ UNCHANGED <<db, retry, proc, mockCall, chain, gate, mode, cacheConnected, now, validationCache, ledger,
                 nextNonce, started, granted>>

\* cachePayment of a valid result, then the gate lets the request through.
CachePayment(s) ==
  /\ req[s].pc = "cachePayment"
  /\ \E ok \in BOOLEAN :
       validationCache' =
         CacheSetValidation(validationCache, req[s].validation, req[s].path, ok)
  /\ req' = [req EXCEPT ![s] = GateRespond(req[s], req[s].validation)]
  /\ granted' = granted \cup {[proof |-> req[s].proof, endpoint |-> req[s].path, at |-> now]}
  /\ UNCHANGED <<db, retry, proc, mockCall, chain, gate, mode, cacheConnected, now, nonceStore, ledger,
                 nextNonce, started>>

\* ------------------------------------------- the on-chain verification
USDC_MINT == "EPjFWdd5AufqSSqeM2qN1xzybapC8G4wEGGkZwyTDt1v"
MAX_TRANSACTION_AGE_SECONDS == 300
maxRetries == 10
retryDelay == 2000

ReasonMissingSignature == "Missing transaction signature in payment payload"
ReasonFetchFailed == "Failed to fetch transaction after 10 attempts"
ReasonNotFound == "Transaction not found on blockchain after 10 attempts (20 seconds)"
ReasonTxFailed == "Transaction failed on-chain"
ReasonNoTimestamp == "Transaction has no timestamp"
ReasonTooOld == "Transaction too old"
ReasonNoTransfer == "No SPL token transfer found in transaction"
ReasonWrongMint == "Wrong token mint"
ReasonInsufficient == "Insufficient payment"
ReasonSenderMismatch == "Sender address mismatch"
ReasonVerificationError == "Verification error"

\* OnChainVerificationResult.
Rejected(reason) == [isValid |-> FALSE, reason |-> reason, txHash |-> "", amount |-> 0]
Accepted(txHash, amount) == [isValid |-> TRUE, reason |-> "", txHash |-> txHash, amount |-> amount]
NoChainResult == Rejected("")

\* getParsedTransaction answers null when the node does not know the
\* signature; blockTime 0 stands for a null blockTime.
NullTransaction ==
  [isNull |-> TRUE, err |-> FALSE, blockTime |-> 0, instructions |-> << >>, signers |-> {}]

\* The instruction loop: every parsed spl-token transfer / transferChecked
\* overwrites the transfer found so far.
NoTransfer ==
  [foundTransfer |-> FALSE, transferAmount |-> 0, transferRecipient |-> "", transferMint |-> ""]

RECURSIVE parseTransfers(_, _)
parseTransfers(instructions, found) ==
  IF instructions = << >> THEN found
  ELSE LET instruction == Head(instructions)
       IN parseTransfers(Tail(instructions),
            IF instruction.program = "spl-token"
                 /\ instruction.type \in {"transfer", "transferChecked"}
            THEN [foundTransfer |-> TRUE,
                  transferAmount |-> instruction.amount,
                  transferRecipient |-> instruction.destination,
                  transferMint |-> instruction.mint]
            ELSE found)

\* Mutants of checkTransaction: a transfer of exactly the required amount is
\* refused; the signer check comes before the amount check.
checkTransaction_RejectExact(payment, requirement, transaction, currentTime) ==
  LET transfer == parseTransfers(transaction.instructions, NoTransfer)
  IN IF transaction.err THEN Rejected(ReasonTxFailed)
     ELSE IF transaction.blockTime = 0 THEN Rejected(ReasonNoTimestamp)
     ELSE IF currentTime - transaction.blockTime > MAX_TRANSACTION_AGE_SECONDS
     THEN Rejected(ReasonTooOld)
     ELSE IF ~transfer.foundTransfer THEN Rejected(ReasonNoTransfer)
     ELSE IF transfer.transferMint # "" /\ transfer.transferMint # USDC_MINT
     THEN Rejected(ReasonWrongMint)
     ELSE IF transfer.transferAmount <= requirement.maxAmountRequired
     THEN Rejected(ReasonInsufficient)
     ELSE IF payment.fromAddress # "" /\ payment.fromAddress \notin transaction.signers
     THEN Rejected(ReasonSenderMismatch)
     ELSE Accepted(payment.signature, transfer.transferAmount)

\* verifyOnChainPayment once the transaction is fetched: the checks, in the
\* order of the source, each returning its rejection.
checkTransaction(payment, requirement, transaction, currentTime) ==
  LET transfer == parseTransfers(transaction.instructions, NoTransfer)
  IN IF transaction.err THEN Rejected(ReasonTxFailed)
     ELSE IF transaction.blockTime = 0 THEN Rejected(ReasonNoTimestamp)
     ELSE IF currentTime - transaction.blockTime > MAX_TRANSACTION_AGE_SECONDS
     THEN Rejected(ReasonTooOld)
     ELSE IF ~transfer.foundTransfer THEN Rejected(ReasonNoTransfer)
     ELSE IF transfer.transferMint # "" /\ transfer.transferMint # USDC_MINT
     THEN Rejected(ReasonWrongMint)
     ELSE IF transfer.transferAmount < requirement.maxAmountRequired
     THEN Rejected(ReasonInsufficient)
     ELSE IF payment.fromAddress # "" /\ payment.fromAddress \notin transaction.signers
     THEN Rejected(ReasonSenderMismatch)
     ELSE Accepted(payment.signature, transfer.transferAmount)

\* The inputs of one call: the payment payload, the requirement, and what
\* the chain holds under the signature.
MaxInstructions == 2
ChainCallTime == 1000
Payer == "payer"
Stranger == "stranger"
MerchantAccount == "merchant"
OtherMint == "So11111111111111111111111111111111111111112"
RequiredAtomic == PriceOverview

SplTransfer(type, amount, mint, destination) ==
  [program |-> "spl-token", type |-> type, amount |-> amount, mint |-> mint,
   destination |-> destination]

\* --------------------------------------------------- gate, X-PAYMENT version
\* The payload of an X-PAYMENT header names a transaction by its signature:
\* one that paid the merchant enough for any priced endpoint at ChainCallTime,
\* or one the chain does not hold.  The payer signs its own payments.
XPaymentSignatures == {"paidSig", "unknownSig"}

PaidTransaction ==
  [isNull |-> FALSE, err |-> FALSE, blockTime |-> ChainCallTime,
   instructions |-> <<SplTransfer("transferChecked", PricePortfolio, USDC_MINT,
                                  MerchantAccount)>>,
   signers |-> {Payer}]

TransactionOnChain(signature) ==
  IF signature = "paidSig" THEN PaidTransaction ELSE NullTransaction

\* The gate's clock counts the seconds since ChainCallTime.
GateTime == ChainCallTime + now

\* Earlier requests the on-chain mode let through on the same signature.
PriorGrantedSignature(signature) ==
  {[endpoint |-> g.endpoint, at |-> g.at] : g \in {h \in granted : h.signature = signature}}

\* parsePaymentHeader returns null on a header that does not decode; a
\* version other than 1 is refused; mock mode lets the request through.
XPaymentGateAfterHeader(r) ==
  IF r.header = "none" THEN "reject402"
  ELSE IF r.header = "malformed" THEN "reject400"
  ELSE IF r.xVersion # X402Version THEN "reject400"
  ELSE IF mode = "mock" THEN "handler"
  ELSE IF mode = "onchain" THEN "onchain"
  ELSE "xverify"

StartXPaymentRequest(s) ==
  /\ gate = "xpayment"
  /\ Accepts(s)
  /\ started < MaxRequests
  /\ \E path \in RequestPaths, header \in XPaymentHeaders, version \in XVersions,
        signature \in XPaymentSignatures :
       LET r0 == [IdleRequest EXCEPT
                    !.path = path, !.header = header,
                    !.xVersion = IF header = "xpay" THEN version ELSE 0,
                    !.signature = IF header = "xpay" THEN signature ELSE "",
                    !.priorGranted = IF header = "xpay" /\ mode = "onchain"
                                     THEN PriorGrantedSignature(signature) ELSE {}]
           r1 == GateEntry(r0, XPaymentGateAfterHeader(r0))
       IN /\ header # "xpay" => (version = 1 /\ signature = "paidSig")
          /\ req' = [req EXCEPT ![s] =
                       IF r1.pc = "reject400" THEN Reply(r1, 400)
                       ELSE IF r1.pc = "reject402" THEN Reply(r1, 402)
                       ELSE IF r1.pc = "handler" THEN RunHandler(r1)
                       ELSE r1]
  /\ started' = started + 1
  /\ UNCHANGED <<db, retry, proc, mockCall, chain, gate, mode, cacheConnected, now, nonceStore, validationCache,
                 ledger, nextNonce, granted>>

\* verifyOnChainPayment has answered.
AfterOnChain(r, isValid) ==
  IF isValid
  THEN [RunHandler(r) EXCEPT !.validation = Valid(r.proof, r.path, now, "tx")]
  ELSE Reply(r, 402)

\* verifyOnChainPayment as the gate sees it: the fetch loop either got the
\* transaction or gave up, and a fetched transaction goes through the checks.
verifyOnChainPayment(payment, requirement, fetched, currentTime) ==
  IF payment.signature = "" THEN Rejected(ReasonMissingSignature)
  ELSE IF ~fetched \/ TransactionOnChain(payment.signature).isNull
  THEN Rejected(ReasonNotFound)
  ELSE checkTransaction(payment, requirement, TransactionOnChain(payment.signature),
                        currentTime)

OnChainVerify(s) ==
  /\ req[s].pc = "onchain"
  /\ \E fetched \in BOOLEAN :
       LET verificationResult ==
             verifyOnChainPayment(
               [signature |-> req[s].signature, fromAddress |-> Payer],
               [maxAmountRequired |-> req[s].price, payTo |-> MerchantAccount],
               fetched, GateTime)
       IN /\ req' = [req EXCEPT ![s] = AfterOnChain(req[s], verificationResult.isValid)]
          /\ granted' = IF verificationResult.isValid
                        THEN granted \cup {[proof |-> NoProof, signature |-> req[s].signature,
                                            endpoint |-> req[s].path, at |-> now]}
                        ELSE granted
  /\ UNCHANGED <<db, retry, proc, mockCall, chain, gate, mode, cacheConnected, now, nonceStore, validationCache,
                 ledger, nextNonce, started>>

\* verifyPayment (facilitator /verify) has answered.
AfterXVerify(r, isValid) == IF isValid THEN [r EXCEPT !.pc = "xsettle"] ELSE Reply(r, 402)

XVerify(s) ==
  /\ req[s].pc = "xverify"
  /\ \E isValid \in BOOLEAN : req' = [req EXCEPT ![s] = AfterXVerify(req[s], isValid)]
  /\ UNCHANGED <<db, retry, proc, mockCall, chain, gate, mode, cacheConnected, now, nonceStore, validationCache,
                 ledger, nextNonce, started, granted>>

\* settlePayment (facilitator /settle) has answered.
AfterXSettle(r, success) ==
  IF success
  THEN [RunHandler(r) EXCEPT !.validation = Valid(r.proof, r.path, now, "tx")]
  ELSE Reply(r, 500)

XSettle(s) ==
  /\ req[s].pc = "xsettle"
  /\ \E success \in BOOLEAN : req' = [req EXCEPT ![s] = AfterXSettle(req[s], success)]
  /\ UNCHANGED <<db, retry, proc, mockCall, chain, gate, mode, cacheConnected, now, nonceStore, validationCache,
                 ledger, nextNonce, started, granted>>

\* ------------------------------------------------------------ environment
\* Time passes; the cache drops the keys whose TTL has run out.
Tick ==
  /\ now + TickSeconds <= MaxTicks * TickSeconds
  /\ now' = now + TickSeconds
  /\ nonceStore' = {e \in nonceStore : now' < e.expires}
  /\ validationCache' = {e \in validationCache : now' < e.expires}
  /\ UNCHANGED <<db, retry, proc, mockCall, chain, gate, mode, cacheConnected, ledger, nextNonce, started, req,
                 granted>>

Next ==
  \/ \E s \in Slots : StartProofRequest(s)
  \/ \E s \in Slots : CreateChallenge(s)
  \/ \E s \in Slots : GetCached(s)
  \/ \E s \in Slots : Peek(s)
  \/ \E s \in Slots : Exists(s)
  \/ \E s \in Slots : MockStrategy(s)
  \/ \E s \in Slots : Verify(s)
  \/ \E s \in Slots : Settle(s)
  \/ \E s \in Slots : Store(s)
  \/ \E s \in Slots : Consume(s)
  \/ \E s \in Slots : Crash(s)
  \/ \E s \in Slots : CachePayment(s)
  \/ \E s \in Slots : StartXPaymentRequest(s)
  \/ \E s \in Slots : OnChainVerify(s)
  \/ \E s \in Slots : XVerify(s)
  \/ \E s \in Slots : XSettle(s)
  \/ Tick

Spec == Init /\ [][Next]_vars

TypeOK ==
  /\ gate \in {"proof", "xpayment"}
  /\ now \in 0..(MaxTicks * TickSeconds)
  /\ started \in 0..MaxRequests
  /\ \A s \in Slots : req[s].status \in {0, 200, 400, 402, 403, 404, 500}

\* ------------------------------------- the simulated strategy on its own
\* One call of MockPaymentValidator.validatePayment per behaviour, on a proof
\* whose amount, timestamp and signature length are drawn around the
\* thresholds the strategy compares them with.
MockCallTime == 600
MockExpectedAmounts == {PriceOverview, PricePortfolio}
MockAmountOffsets == {0 - 1001, 0 - 1000, 0 - 1, 0, 1000, 1001, 40000}
MockProofAges == {0 - 100, 0, 299, 300, 301, 600}
MockSigLens == {0, 1, 9, 10, 20}

MockProofs ==
  {[nonce |-> ForgedNonce, amount |-> e + d, sigLen |-> l, timestamp |-> MockCallTime - a] :
     e \in MockExpectedAmounts, d \in MockAmountOffsets, l \in MockSigLens,
     a \in MockProofAges}

\* The gate and PaymentValidator stand still while a strategy is run alone.
GateAtRest ==
  /\ gate = "proof"
  /\ mode = "mock"
  /\ cacheConnected = TRUE
  /\ nonceStore = {}
  /\ validationCache = {}
  /\ ledger = {}
  /\ nextNonce = 1
  /\ started = 0
  /\ req = [s \in Slots |-> IdleRequest]
  /\ granted = {}

MockInit ==
  /\ GateAtRest
  /\ now = MockCallTime
  /\ chain = NoChainCall
  /\ db = NoDatabase
  /\ retry = NoRetryCall
  /\ proc = NoProcess
  /\ \E proof \in MockProofs, expected \in MockExpectedAmounts :
       mockCall = [pc |-> "called", proof |-> proof, expectedAmount |-> expected,
                   result |-> NoValidation]

MockValidatePayment ==
  /\ mockCall.pc = "called"
  /\ mockCall' = [mockCall EXCEPT
                    !.pc = "returned",
                    !.result = MockValidate(mockCall.proof, mockCall.expectedAmount,
                                            PathOverview, now)]
  /\ UNCHANGED <<gateVars, chain, db, retry, proc>>

MockNext == MockValidatePayment

MockSpec == MockInit /\ [][MockNext]_vars

\* -------------------------------------- the on-chain strategy on its own
\* A plain "transfer" carries no mint in its parsed info, a "transferChecked"
\* always does.
ChainInstructions ==
  {[program |-> "system", type |-> "transfer", amount |-> RequiredAtomic, mint |-> "",
    destination |-> MerchantAccount],
   SplTransfer("approve", RequiredAtomic, "", MerchantAccount),
   SplTransfer("transferChecked", RequiredAtomic - 1, USDC_MINT, MerchantAccount),
   SplTransfer("transferChecked", RequiredAtomic, USDC_MINT, MerchantAccount),
   SplTransfer("transferChecked", RequiredAtomic + 1, USDC_MINT, MerchantAccount),
   SplTransfer("transferChecked", RequiredAtomic, USDC_MINT, Stranger),
   SplTransfer("transferChecked", RequiredAtomic, OtherMint, MerchantAccount),
   SplTransfer("transfer", RequiredAtomic, "", MerchantAccount)}

ChainBlockTimes ==
  {0, ChainCallTime, ChainCallTime - MAX_TRANSACTION_AGE_SECONDS,
   ChainCallTime - MAX_TRANSACTION_AGE_SECONDS - 1, ChainCallTime + 100}

ChainTransactions ==
  {[isNull |-> FALSE, err |-> e, blockTime |-> b, instructions |-> i, signers |-> g] :
     e \in BOOLEAN, b \in ChainBlockTimes,
     i \in UNION {[1..n -> ChainInstructions] : n \in 0..MaxInstructions},
     g \in {{Payer}, {Stranger}}}

ChainPayments == [signature : {"", "sig"}, fromAddress : {"", Payer}]

ChainInit ==
  /\ GateAtRest
  /\ now = ChainCallTime
  /\ mockCall = NoMockCall
  /\ db = NoDatabase
  /\ retry = NoRetryCall
  /\ proc = NoProcess
  /\ \E payment \in ChainPayments, rpcConfigured \in BOOLEAN :
       chain = [pc |-> "called", payment |-> payment,
                requirement |-> [maxAmountRequired |-> RequiredAtomic,
                                 payTo |-> MerchantAccount],
                rpcConfigured |-> rpcConfigured,
                attempt |-> 0, fetches |-> 0, sleeps |-> 0, waited |-> 0,
                aborted |-> FALSE,
                transaction |-> NullTransaction, result |-> NoChainResult]

\* verifyOnChainPayment up to its first await: no signature is refused,
\* getConnection throws without an RPC url (caught by the outer catch).
AfterEnter(c) ==
  IF c.payment.signature = ""
  THEN [c EXCEPT !.pc = "done", !.result = Rejected(ReasonMissingSignature)]
  ELSE IF ~c.rpcConfigured
  THEN [c EXCEPT !.pc = "done", !.result = Rejected(ReasonVerificationError)]
  ELSE [c EXCEPT !.pc = "fetch"]

ChainEnter ==
  /\ chain.pc = "called"
  /\ chain' = AfterEnter(chain)
  /\ UNCHANGED <<gateVars, mockCall, db, retry, proc>>

\* Mutant of AfterFetch: the loop goes on after the last attempt.
AfterFetch_OneMoreAttempt(c, outcome, transaction) ==
  LET fetched == [c EXCEPT !.fetches = c.fetches + 1]
  IN IF outcome = "found"
     THEN [fetched EXCEPT
             !.pc = "done", !.transaction = transaction,
             !.result = checkTransaction(c.payment, c.requirement, transaction,
                                         now + (c.waited \div 1000))]
     ELSE IF c.attempt < maxRetries
     THEN [fetched EXCEPT !.pc = "sleep"]
     ELSE [fetched EXCEPT !.pc = "done", !.result = Rejected(ReasonNotFound)]

\* One getParsedTransaction call has resolved ("found", "null") or rejected
\* ("throw"): the loop breaks on a transaction and runs the checks at the
\* time it is then; otherwise it sleeps, or gives up on the last attempt.
AfterFetch(c, outcome, transaction) ==
  LET fetched == [c EXCEPT !.fetches = c.fetches + 1]
  IN IF outcome = "found"
     THEN [fetched EXCEPT
             !.pc = "done", !.transaction = transaction,
             !.result = checkTransaction(c.payment, c.requirement, transaction,
                                         now + (c.waited \div 1000))]
     ELSE IF c.attempt < maxRetries - 1
     THEN [fetched EXCEPT !.pc = "sleep"]
     ELSE IF outcome = "throw"
     THEN [fetched EXCEPT !.pc = "done", !.result = Rejected(ReasonFetchFailed)]
     ELSE [fetched EXCEPT !.pc = "done", !.attempt = c.attempt + 1,
                          !.result = Rejected(ReasonNotFound)]

\* The await of getParsedTransaction ends, the node holding one of
\* transactions under the signature or none.
FetchFrom(transactions) ==
  /\ chain.pc = "fetch"
  /\ \/ \E transaction \in transactions :
          chain' = AfterFetch(chain, "found", transaction)
     \/ \E outcome \in {"null", "throw"} :
          chain' = AfterFetch(chain, outcome, NullTransaction)
  /\ UNCHANGED <<gateVars, mockCall, db, retry, proc>>

ChainFetch == FetchFrom(ChainTransactions)

\* setTimeout(resolve, retryDelay) has fired; the loop takes its next turn.
AfterSleep(c) ==
  [c EXCEPT !.pc = "fetch", !.attempt = c.attempt + 1, !.sleeps = c.sleeps + 1,
            !.waited = c.waited + retryDelay]

ChainSleep ==
  /\ chain.pc = "sleep"
  /\ chain' = AfterSleep(chain)
  /\ UNCHANGED <<gateVars, mockCall, db, retry, proc>>

\* The client aborts the inbound request, or it times out, while the call
\* is in its loop.  verifyOnChainPayment is handed the payment and the
\* requirement only: nothing of the request reaches it.
RequestAborted ==
  /\ chain.pc \in {"fetch", "sleep"}
  /\ ~chain.aborted
  /\ chain' = [chain EXCEPT !.aborted = TRUE]
  /\ UNCHANGED <<gateVars, mockCall, db, retry, proc>>

ChainNext == ChainEnter \/ ChainFetch \/ ChainSleep \/ RequestAborted

ChainSpec == ChainInit /\ [][ChainNext]_vars

\* The same call, for the fetch loop: the transactions it may find are those
\* of at most one instruction.  Every await of the call is eventually
\* resumed: the RPC client answers or throws, the timer fires.
LoopTransactions ==
  {t \in ChainTransactions : Len(t.instructions) <= 1 /\ t.signers = {Payer}}

LoopFetch == FetchFrom(LoopTransactions)

LoopNext == ChainEnter \/ LoopFetch \/ ChainSleep

FetchSpec == ChainInit /\ [][LoopNext]_vars /\ WF_vars(LoopNext)

\* ------------------------------------------------------------- properties
Done(s) == req[s].pc = "done"
ProofRequest(s) == req[s].header = "proof" /\ Done(s)
Priced(path) == requiresPayment(path) /\ getEndpointPrice(path) # NoPrice
LedgerHas(nonce) == \E row \in ledger : row.nonce = nonce

\* C1: on a path that requires payment the handler runs only for a request
\* for which the gate obtained a valid=true verification of its proof.
C1_HandlerOnlyAfterValidProof ==
  \A s \in Slots :
    (req[s].handlerRan /\ requiresPayment(req[s].path)) => req[s].validation.valid

\* C2: of the validatePayment calls for one fresh nonce that overlap in time,
\* that the strategy did not reject and whose INSERT did not hit a storage
\* error, at most one returns valid=true (the others can then only be replay
\* rejections).
C2_OneWinnerPerNonce ==
  \A s, t \in Slots :
    (/\ s # t
     /\ ProofRequest(s) /\ ProofRequest(t)
     /\ req[s].returned /\ req[t].returned
     /\ req[s].proof = req[t].proof
     /\ req[s].priorGranted = {} /\ req[t].priorGranted = {}
     /\ req[s].peek # "absent" /\ req[t].peek # "absent"
     /\ req[s].insertRes # "error" /\ req[t].insertRes # "error"
     /\ req[s].validation.error \in {"", ErrReplay}
     /\ req[t].validation.error \in {"", ErrReplay})
    => ~(req[s].validation.valid /\ req[t].validation.valid)

\* C3: a validatePayment call made after the same proof was accepted (here:
\* for the same endpoint) returns valid=false with the replay error.
C3_LaterCallIsReplay ==
  \A s \in Slots :
    (/\ ProofRequest(s) /\ req[s].returned
     /\ \E g \in req[s].priorGranted : g.endpoint = req[s].path)
    => (~req[s].validation.valid /\ req[s].validation.error = ErrReplay)

\* C4: a proof accepted for another path only is rejected as a replay, and
\* the rejection is the ledger check's.
C4_CrossPathRejectedByLedger ==
  \A s \in Slots :
    (/\ ProofRequest(s) /\ Priced(req[s].path)
     /\ req[s].priorGranted # {}
     /\ \A g \in req[s].priorGranted : g.endpoint # req[s].path)
    => (/\ req[s].status = 403
        /\ req[s].validation.error = ErrReplay
        /\ req[s].existsRes = "present")

C6_RepeatIs403Replay ==
  \A s \in Slots :
    (ProofRequest(s) /\ \E g \in req[s].priorGranted : g.endpoint = req[s].path)
    => (req[s].status = 403 /\ req[s].validation.error = ErrReplay)

\* C7: a returned valid=true has its ledger row, and a returned valid=false
\* has written none.
C7_ValidIffLedgerRow ==
  \A s \in Slots :
    req[s].returned =>
      /\ req[s].validation.valid => LedgerHas(req[s].proof.nonce)
      /\ ~req[s].validation.valid => req[s].insertRes # "inserted"

\* C8: a call whose ledger insert failed does not return valid=true.
C8_FailedInsertFailsCall ==
  \A s \in Slots :
    (req[s].returned /\ req[s].insertRes \in {"error", "duplicate"})
    => ~req[s].validation.valid

\* C9 as stated: a well-formed proof with a nonce createChallenge never
\* issued gets 403 with the nonce message and no access.
UnknownNonceRejected(s) ==
  (ProofRequest(s) /\ Priced(req[s].path) /\ req[s].proof.nonce = ForgedNonce)
  => (/\ req[s].status = 403
      /\ req[s].validation.error = ErrNonce
      /\ ~req[s].handlerRan)

C10_PeekStep ==
  \A s \in Slots :
    (/\ req[s].pc = "peek"
     /\ req'[s].pc # "peek"
     /\ ~\E e \in nonceStore : e.nonce = req[s].proof.nonce /\ now < e.expires)
    => (/\ req'[s].pc = "done"
        /\ req'[s].returned
        /\ ~req'[s].validation.valid
        /\ req'[s].validation.error = ErrNonce
        /\ req'[s].status = 403
        /\ req'[s].stratCalls = 0
        /\ req'[s].existsRes = "none"
        /\ ledger' = ledger)

C10_PeekGuards ==
  \A s \in Slots :
    /\ (mode # "mock" /\ req[s].pc \in {"exists", "mock", "verify", "settle", "store", "consume", "cachePayment"})
         => req[s].peek = "present"
    /\ (mode # "mock" /\ (req[s].existsRes # "none" \/ req[s].stratCalls > 0 \/ req[s].insertRes # "none"))
         => req[s].peek = "present"
    /\ mode = "mock" => req[s].peek = "none"

C10_NoEntryNoValidation == [][C10_PeekStep]_vars /\ []C10_PeekGuards

C10_Witness ==
  /\ mode # "mock"
  /\ \E s \in Slots :
       /\ ProofRequest(s) /\ req[s].peek = "absent" /\ req[s].status = 403
       /\ req[s].proof.nonce # ForgedNonce
       /\ LedgerHas(req[s].proof.nonce)

\* C11: a request without proof header to a priced path is answered 402 with
\* the challenge and the handler does not run; when createChallenge returns,
\* the Nonce Store holds exactly one entry for the challenge's nonce, expiring
\* NonceTtlSeconds from now.
C11_NoProofAnswered ==
  \A s \in Slots :
    (gate = "proof" /\ Done(s) /\ req[s].header = "none" /\ Priced(req[s].path))
    => (req[s].status = 402 /\ ~req[s].handlerRan /\ req[s].challenge >= 1)

C11_ChallengeStep ==
  \A s \in Slots :
    (req[s].pc = "challenge" /\ req'[s].pc # "challenge")
    => (/\ req'[s].challenge = nextNonce
        /\ Cardinality({e \in nonceStore' : e.nonce = nextNonce}) = 1
        /\ \A e \in nonceStore' :
             e.nonce = nextNonce => e.expires = now + NonceTtlSeconds)

C11_ChallengeStoresNonce == []C11_NoProofAnswered /\ [][C11_ChallengeStep]_vars

\* C12: once validatePayment has returned valid=true for a proof, the Nonce
\* Store holds no entry for the proof's nonce.
C12_ValidConsumesNonce ==
  \A s \in Slots :
    (gate = "proof" /\ req[s].returned /\ req[s].validation.valid)
    => ~\E e \in nonceStore : e.nonce = req[s].proof.nonce

\* C13: a request to "/" or "/health" goes straight to the handler: no
\* challenge, no validation, and the step that serves it leaves the Nonce
\* Store, the validation cache, the ledger and the nonce counter alone.
IsFreePath(path) == path = PathRoot \/ path = PathHealth

C13_FreeServed ==
  \A s \in Slots :
    (req[s].pc # "idle" /\ IsFreePath(req[s].path))
    => (/\ Done(s) /\ req[s].status = 200 /\ req[s].handlerRan
        /\ req[s].challenge = 0 - 1
        /\ req[s].validation = NoValidation
        /\ req[s].lookup = "none" /\ req[s].peek = "none"
        /\ req[s].existsRes = "none" /\ req[s].insertRes = "none"
        /\ req[s].stratCalls = 0)

C13_FreeStep ==
  \A s \in Slots :
    (req'[s] # req[s] /\ IsFreePath(req'[s].path) /\ req'[s].pc # "idle")
    => (/\ nonceStore' = nonceStore
        /\ validationCache' = validationCache
        /\ ledger' = ledger
        /\ nextNonce' = nextNonce)

C13_FreePathsPassThrough == []C13_FreeServed /\ [][C13_FreeStep]_vars

C13_Witness ==
  /\ nonceStore # {}
  /\ \E s, t \in Slots :
       /\ Done(s) /\ req[s].path = PathRoot /\ req[s].handlerRan
       /\ Done(t) /\ req[t].path = PathHealth /\ req[t].handlerRan
       /\ req[t].header = "proof"

\* C14 as stated: on a protected path a proof header that does not decode is
\* answered 400 and validatePayment is not called.
UndecodableAnswered400(s) ==
  /\ Done(s) /\ req[s].status = 400 /\ ~req[s].handlerRan
  /\ ~req[s].returned /\ req[s].validation = NoValidation
  /\ req[s].lookup = "none" /\ req[s].peek = "none"
  /\ req[s].existsRes = "none" /\ req[s].insertRes = "none"
  /\ req[s].stratCalls = 0

C14_PricedUndecodable ==
  \A s \in Slots :
    (gate = "proof" /\ req[s].header \in UndecodableHeaders)
    => IF Priced(req[s].path) THEN UndecodableAnswered400(s)
       ELSE Done(s) /\ req[s].status = (IF requiresPayment(req[s].path) THEN 404 ELSE 200)

C14_UndecodableStep ==
  \A s \in Slots :
    (req'[s] # req[s] /\ req'[s].header \in UndecodableHeaders)
    => (/\ nonceStore' = nonceStore
        /\ validationCache' = validationCache
        /\ ledger' = ledger)

C16_SettleOnlyAfterVerify ==
  \A s \in Slots :
    /\ (req[s].pc = "settle" \/ req[s].settleCalls > 0) => req[s].verifyRes = "valid"
    /\ req[s].verifyRes \in {"invalid", "throw"}
         => (req[s].settleCalls = 0 /\ req[s].settleRes = "none" /\ ~req[s].validation.valid)
    /\ (gate = "proof" /\ mode # "mock" /\ req[s].validation.valid /\ req[s].lookup # "hit")
         => (/\ req[s].verifyRes = "valid" /\ req[s].settleRes = "success"
             /\ req[s].validation.txHash = SettleTxHash
             /\ req[s].validation.networkId = SettleNetworkId)
    /\ req[s].settleRes \in {"failure", "throw"} => ~req[s].validation.valid

C16_Witness ==
  \E s, t \in Slots :
    /\ req[s].settleRes = "success" /\ req[s].validation.valid /\ Done(s)
    /\ req[t].verifyRes = "invalid" /\ Done(t)

\* C17: a thrown verify or settle call ends the strategy with valid=false
\* and the facilitator error, which is neither rejection message; no call is
\* repeated: one validatePayment sends at most one verify and one settle.
C17_TransportFailure ==
  \A s \in Slots :
    /\ (req[s].verifyRes = "throw" \/ req[s].settleRes = "throw")
         => (/\ Done(s) /\ req[s].returned
             /\ ~req[s].validation.valid
             /\ req[s].validation.error = ErrFacilitator
             /\ req[s].insertRes = "none")
    /\ req[s].verifyRes = "invalid" => req[s].validation.error = ErrFacilitatorRejected
    /\ req[s].settleRes = "failure" => req[s].validation.error = ErrSettlement
    /\ req[s].validation.error = ErrFacilitator
         => (req[s].verifyRes = "throw" \/ req[s].settleRes = "throw")
    /\ req[s].verifyCalls <= 1 /\ req[s].settleCalls <= 1
    /\ req[s].verifyCalls + req[s].settleCalls <= 2 * req[s].stratCalls

C17_Witness ==
  \E s, t \in Slots :
    /\ req[s].verifyRes = "throw" /\ req[s].status = 403
    /\ req[t].settleRes = "throw" /\ req[t].status = 403 /\ req[t].verifyCalls = 1

\* C15: the simulated strategy answers as the reference does: of the three
\* checks amount (more than 0.001 USDC off the expected amount), age (older
\* than 5 minutes) and signature (missing or under 10 characters), taken in
\* that order, the first that fails names the error; valid=true when none does.
C15_FailingChecks(proof, expected, at) ==
  {k \in 1..3 :
     \/ k = 1 /\ (proof.amount - expected > MockAmountTolerance
                    \/ expected - proof.amount > MockAmountTolerance)
     \/ k = 2 /\ at - proof.timestamp > MockWindowMinutes * 60
     \/ k = 3 /\ (proof.sigLen = 0 \/ proof.sigLen < MockMinSignatureLength)}

C15_Reference(proof, expected, at) ==
  LET failing == C15_FailingChecks(proof, expected, at)
      first == CHOOSE k \in failing : \A j \in failing : k <= j
  IN IF failing = {} THEN ""
     ELSE IF first = 1 THEN ErrAmount
     ELSE IF first = 2 THEN ErrExpired
     ELSE ErrSignature

C15_MockEqualsReference ==
  mockCall.pc = "returned" =>
    /\ mockCall.result.error =
         C15_Reference(mockCall.proof, mockCall.expectedAmount, now)
    /\ mockCall.result.valid <=> mockCall.result.error = ""
    /\ mockCall.result.proof = mockCall.proof

C15_Witness ==
  /\ mockCall.pc = "returned"
  /\ mockCall.result.error = ErrAmount
  /\ Cardinality(C15_FailingChecks(mockCall.proof, mockCall.expectedAmount, now)) = 3

\* C18: the fetch loop makes at most maxRetries getParsedTransaction calls,
\* each after the first preceded by one sleep of retryDelay (so the time
\* slept is sleeps * retryDelay, never more than 9 of them), makes no call
\* after one returned a transaction, ends with a fetch rejection when all
\* calls returned null or threw, and always ends.
C18_LoopBounds ==
  chain.pc # "none" =>
    /\ chain.fetches <= maxRetries
    /\ chain.sleeps <= maxRetries - 1
    /\ chain.waited = chain.sleeps * retryDelay
    /\ chain.pc = "fetch" => chain.fetches = chain.sleeps
    /\ chain.pc = "sleep" => chain.fetches = chain.sleeps + 1
    /\ (chain.pc = "done" /\ chain.fetches > 0) => chain.fetches = chain.sleeps + 1
    /\ ~chain.transaction.isNull => chain.pc = "done"
    /\ (chain.pc = "done" /\ chain.fetches > 0 /\ chain.transaction.isNull)
         => (/\ chain.fetches = maxRetries
             /\ ~chain.result.isValid
             /\ chain.result.reason \in {ReasonNotFound, ReasonFetchFailed})

C18_LoopStep ==
  /\ chain.pc = "done" => chain' = chain
  /\ chain.pc \in {"fetch", "sleep"} =>
       (chain'.waited = chain.waited \/ chain'.waited = chain.waited + retryDelay)

IsTokenTransfer(instruction) ==
  instruction.program = "spl-token" /\ instruction.type \in {"transfer", "transferChecked"}

TokenTransfersAt(transaction) ==
  {k \in DOMAIN transaction.instructions : IsTokenTransfer(transaction.instructions[k])}

\* The transfer the amount check is about: the last one in the transaction.
ExaminedTransfer(transaction) ==
  transaction.instructions[CHOOSE k \in TokenTransfersAt(transaction) :
                             \A j \in TokenTransfersAt(transaction) : j <= k]

CheckedAt == now + (chain.waited \div 1000)

First(failing) == CHOOSE k \in failing : \A j \in failing : k <= j

\* C19 as stated: five checks, in the order failure, age, no transfer,
\* amount, signer; the first that fails is the rejection.
C19_FiveFailing(c) ==
  {k \in 1..5 :
     \/ k = 1 /\ c.transaction.err
     \/ k = 2 /\ c.transaction.blockTime # 0
              /\ CheckedAt - c.transaction.blockTime > MAX_TRANSACTION_AGE_SECONDS
     \/ k = 3 /\ TokenTransfersAt(c.transaction) = {}
     \/ k = 4 /\ TokenTransfersAt(c.transaction) # {}
              /\ ExaminedTransfer(c.transaction).amount < c.requirement.maxAmountRequired
     \/ k = 5 /\ c.payment.fromAddress # ""
              /\ c.payment.fromAddress \notin c.transaction.signers}

C19_FiveReasons ==
  <<ReasonTxFailed, ReasonTooOld, ReasonNoTransfer, ReasonInsufficient, ReasonSenderMismatch>>

C19_SevenFailing(c) ==
  {k \in 1..7 :
     \/ k = 1 /\ c.transaction.err
     \/ k = 2 /\ c.transaction.blockTime = 0
     \/ k = 3 /\ CheckedAt - c.transaction.blockTime > MAX_TRANSACTION_AGE_SECONDS
     \/ k = 4 /\ TokenTransfersAt(c.transaction) = {}
     \/ k = 5 /\ TokenTransfersAt(c.transaction) # {}
              /\ ExaminedTransfer(c.transaction).mint \notin {"", USDC_MINT}
     \/ k = 6 /\ TokenTransfersAt(c.transaction) # {}
              /\ ExaminedTransfer(c.transaction).amount < c.requirement.maxAmountRequired
     \/ k = 7 /\ c.payment.fromAddress # ""
              /\ c.payment.fromAddress \notin c.transaction.signers}

C19_SevenReasons ==
  <<ReasonTxFailed, ReasonNoTimestamp, ReasonTooOld, ReasonNoTransfer, ReasonWrongMint,
    ReasonInsufficient, ReasonSenderMismatch>>

C20_OnlyUsdcAccepted ==
  (chain.pc = "done" /\ chain.result.isValid)
  => \E k \in TokenTransfersAt(chain.transaction) :
       /\ chain.transaction.instructions[k].mint = USDC_MINT
       /\ chain.transaction.instructions[k].amount >= chain.requirement.maxAmountRequired

\* C21: an accepted transaction's examined transfer was sent to the
\* requirement's payTo account; a sufficient transfer to any other
\* destination is rejected.
C21_OnlyToRecipient ==
  (chain.pc = "done" /\ chain.result.isValid)
  => ExaminedTransfer(chain.transaction).destination = chain.requirement.payTo

\* C23: a request to /api/v1/rpc that carries no payment header is passed to
\* its route handler and is not answered 402 or 404 by the gate.
C23_RpcNotGated ==
  \A s \in Slots :
    (Done(s) /\ req[s].path = PathRpc /\ req[s].header = "none")
    => (req[s].handlerRan /\ req[s].status \notin {402, 404})

\* C22: in on-chain mode a request that presents a signature an earlier
\* request was already let through on is not let through, on the same or on
\* any other priced endpoint.
C22_AcceptedSignatureRejectedLater ==
  \A s \in Slots :
    (/\ gate = "xpayment" /\ mode = "onchain"
     /\ Done(s) /\ req[s].header = "xpay" /\ Priced(req[s].path)
     /\ req[s].priorGranted # {})
    => ~req[s].handlerRan

\* A validation in which a dependency failed: the facilitator call threw,
\* the ledger INSERT hit a storage error, or the last cache or ledger read
\* of the request failed.
DependencyFailed(s) ==
  \/ req[s].verifyRes = "throw" \/ req[s].settleRes = "throw"
  \/ req[s].insertRes = "error"
  \/ req[s].ioError

\* C24: a proof request whose validation hit a facilitator transport
\* failure, a ledger failure or a cache outage is answered with a
\* dependency-error status (502 or 503), never with 403.
C24_DependencyErrorReported ==
  \A s \in Slots :
    (ProofRequest(s) /\ Priced(req[s].path) /\ DependencyFailed(s))
    => req[s].status \in {502, 503}

\* Where one validatePayment call stands: each step it has taken was
\* preceded by the steps the source puts before it (mock mode has no peek).
C26_StepsInOrder ==
  \A s \in Slots :
    /\ req[s].existsRes # "none" => (mode # "mock" => req[s].peek = "present")
    /\ (req[s].stratCalls > 0 \/ req[s].pc \in {"mock", "verify", "settle"})
         => req[s].existsRes = "absent"
    /\ (req[s].insertRes # "none" \/ req[s].pc = "store")
         => (req[s].stratCalls = 1 /\ req[s].validation.valid)
    /\ req[s].pc \in {"consume", "cachePayment"} => req[s].insertRes # "none"
    /\ req[s].pc = "cachePayment" => req[s].returned

\* The stores change only at the step whose turn it is: a ledger row is
\* written by a request at its insert, after a strategy accepted; a nonce
\* entry is removed by a request only at its consume, after its insert
\* returned; a strategy is entered only from a finished existence check.
C26_StoreSteps ==
  \A s \in Slots :
    (req'[s] # req[s] /\ req[s].pc # "idle")
    => (/\ ledger' # ledger
            => (req[s].pc = "store" /\ req[s].stratCalls = 1 /\ req[s].validation.valid)
        /\ (nonceStore \ nonceStore' # {})
            => (req[s].pc = "consume" /\ req[s].insertRes # "none")
        /\ (req'[s].pc \in {"mock", "verify"} /\ req[s].pc # req'[s].pc)
            => (req[s].pc = "exists" /\ req'[s].existsRes = "absent"))

\* C26: within one validatePayment call the steps run in the order peek,
\* ledger existence check, strategy, ledger insert, nonce consume: the
\* strategy is not called before the existence check has returned and the
\* nonce is not consumed before the insert has returned.
C26_ValidateOrder == []C26_StepsInOrder /\ [][C26_StoreSteps]_vars

C26_Witness ==
  \E s \in Slots :
    /\ mode # "mock" /\ ProofRequest(s) /\ req[s].returned
    /\ req[s].peek = "present" /\ req[s].existsRes = "absent"
    /\ req[s].stratCalls = 1 /\ req[s].insertRes = "inserted"
    /\ LedgerHas(req[s].proof.nonce)
    /\ ~\E e \in nonceStore : e.nonce = req[s].proof.nonce

\* C27: after a crash between the ledger insert and the nonce consume, every
\* later validatePayment for that nonce returns valid=false.
C27_StaleNonceGrantsNothing ==
  \A s \in Slots :
    (ProofRequest(s) /\ req[s].returned /\ req[s].afterCrash)
    => ~req[s].validation.valid

\* A request's own steps between the cache lookup and its answer.
InValidation(r) ==
  r.pc \in {"getCached", "peek", "exists", "mock", "verify", "settle", "store", "consume",
            "cachePayment"}

\* A validatePayment call that has returned valid=false wrote no ledger row
\* and never reached the insert, the consume or the cachePayment.
C28_InvalidWroteNothing ==
  \A s \in Slots :
    (req[s].returned /\ ~req[s].validation.valid)
    => (Done(s) /\ req[s].insertRes = "none" /\ req[s].status = 403)

\* A step of a request under validation changes a store only once the
\* strategy has accepted the proof, and the call then returns valid=true;
\* the step that returns valid=false changes no store.
C28_InvalidStep ==
  \A s \in Slots :
    (req'[s] # req[s] /\ InValidation(req[s]))
    => (/\ (ledger' # ledger \/ nonceStore' # nonceStore
             \/ validationCache' # validationCache)
            => (/\ req[s].pc \in {"store", "consume", "cachePayment"}
                /\ req[s].validation.valid /\ req'[s].validation.valid)
        /\ (req'[s].returned /\ ~req'[s].validation.valid)
            => (ledger' = ledger /\ nonceStore' = nonceStore
                /\ validationCache' = validationCache))

\* C28: a validatePayment call that returns valid=false leaves the Nonce
\* Store, the ledger and the validation cache as they were.
C28_InvalidLeavesStores == []C28_InvalidWroteNothing /\ [][C28_InvalidStep]_vars

\* The nonce of a rejected proof is redeemed by a later request.
C28_Witness ==
  \E s, t \in Slots :
    /\ s # t
    /\ ProofRequest(s) /\ req[s].returned /\ ~req[s].validation.valid
    /\ req[s].validation.error \in {ErrAmount, ErrFacilitatorRejected, ErrSettlement}
    /\ ProofRequest(t) /\ req[t].returned /\ req[t].validation.valid
    /\ req[t].proof.nonce = req[s].proof.nonce
    /\ req[t].insertRes = "inserted"
    /\ req[t].priorGranted = {}

\* A step of a strategy: the simulated validator's call, or the
\* facilitator's verify or settle call.
StrategyStep(s) ==
  req[s].pc \in {"mock", "verify", "settle"} /\ req'[s] # req[s]

\* C29: across a strategy call the Nonce Store, the validation cache and the
\* ledger are unchanged, and the simulated strategy's verdict is the one its
\* arguments (proof, expected amount, endpoint, clock) determine.
C29_StrategyStepFrame ==
  \A s \in Slots :
    StrategyStep(s)
    => (/\ nonceStore' = nonceStore
        /\ validationCache' = validationCache
        /\ ledger' = ledger
        /\ req[s].pc = "mock"
             => req'[s].validation =
                  MockValidate(req[s].proof, req[s].price, req[s].path, now))

C29_StrategiesTouchNoStore == [][C29_StrategyStepFrame]_vars

\* A facilitator strategy has accepted while the Nonce Store still holds the
\* nonce and the ledger has no row for it.
C29_Witness ==
  \E s \in Slots :
    /\ req[s].pc = "store" /\ req[s].settleRes = "success" /\ req[s].verifyCalls = 1
    /\ \E e \in nonceStore : e.nonce = req[s].proof.nonce
    /\ ~LedgerHas(req[s].proof.nonce)

\* The step at which a request whose validatePayment call has returned is
\* answered, and the cache entry its result would be kept under.
CompletionStep(s) == req[s].pc # "done" /\ req'[s].pc = "done" /\ req'[s].returned

ResultEntry(r) ==
  [nonce |-> r.proof.nonce, endpoint |-> r.path, value |-> r.validation,
   expires |-> now + ValidationCacheTtlSeconds]

\* C30: when a validation completes, the validation cache holds its final
\* result, valid or not, under (nonce, path), expiring after the fixed TTL.
C30_EveryResultCached ==
  [][\A s \in Slots : CompletionStep(s) => ResultEntry(req'[s]) \in validationCache']_vars

\* C30 amended: only a valid result is written, under (nonce, path) with the
\* fixed TTL, replacing what the key held, and the write is best effort (a
\* cache that is down or fails the write keeps what it had); an invalid
\* result is never written, so every entry of the cache is a valid result
\* filed under its own nonce and path.
C30_ValidResultStep ==
  \A s \in Slots :
    CompletionStep(s)
    => IF req'[s].validation.valid
       THEN \/ validationCache' = validationCache
            \/ /\ cacheConnected
               /\ validationCache' =
                    {e \in validationCache :
                       ~(e.nonce = req[s].proof.nonce /\ e.endpoint = req[s].path)}
                      \cup {ResultEntry(req'[s])}
       ELSE validationCache' = validationCache

C30_OnlyValidEntries ==
  \A e \in validationCache :
    /\ e.value.valid
    /\ e.value.proof.nonce = e.nonce
    /\ e.value.endpoint = e.endpoint
    /\ e.expires <= now + ValidationCacheTtlSeconds

C30_ValidResultCached == []C30_OnlyValidEntries /\ [][C30_ValidResultStep]_vars

C30_Witness ==
  \E s \in Slots :
    /\ ProofRequest(s) /\ req[s].returned /\ req[s].validation.valid
    /\ \E e \in validationCache :
         /\ e.nonce = req[s].proof.nonce /\ e.endpoint = req[s].path
         /\ e.value = req[s].validation
         /\ e.expires = req[s].validation.verifiedAt + ValidationCacheTtlSeconds

\* C31: a validatePayment call that has ended has returned a ValidatedPayment
\* (no exception reached the gate), and the value carries an error whenever
\* it is not valid; the gate then answers 200 or 403.
C31_AlwaysReturnsTyped ==
  \A s \in Slots :
    (gate = "proof" /\ Done(s) /\ req[s].lookup = "miss")
    => (/\ req[s].returned
        /\ req[s].validation.proof = req[s].proof
        /\ req[s].validation.valid \/ req[s].validation.error # ""
        /\ req[s].status = (IF req[s].validation.valid THEN 200 ELSE 403))

\* A facilitator call that threw and a nonce read that failed both ended in
\* a returned value; so did a call whose ledger INSERT failed.
C31_Witness ==
  \E s, t \in Slots :
    /\ Done(s) /\ req[s].returned /\ req[s].settleRes = "throw"
    /\ req[s].validation.error = ErrFacilitator
    /\ Done(t) /\ req[t].returned
    /\ \/ req[t].peek = "absent" /\ req[t].ioError
       \/ req[t].insertRes = "error"

\* C32: when the ledger existence query has failed, the call ends with a
\* failure: the nonce is not taken as unused, no strategy is called and the
\* result is not valid.
C32_FailedQueryFailsCall ==
  \A s \in Slots :
    (req[s].existsRes = "absent" /\ req[s].ioError)
    => (/\ Done(s) /\ req[s].returned
        /\ ~req[s].validation.valid
        /\ req[s].stratCalls = 0)

\* A request with a decodable proof for a protected path was turned away.
ProofRejected(s) ==
  /\ ~req[s].handlerRan
  /\ req[s].status = (IF Priced(req[s].path) THEN 403 ELSE 404)

C34_AcceptedInsideWindow ==
  (mockCall.pc = "returned" /\ mockCall.result.valid)
  => (/\ now - mockCall.proof.timestamp <= MockWindowMinutes * 60
      /\ mockCall.proof.timestamp <= now)

\* C35: once the inbound request is aborted, the fetch loop starts no
\* further fetch attempt and no further sleep.
C35_AbortStopsStep ==
  chain.aborted
  => (/\ ~(chain.pc # "fetch" /\ chain'.pc = "fetch")
      /\ ~(chain.pc # "sleep" /\ chain'.pc = "sleep"))

C35_AbortStopsLoop == [][C35_AbortStopsStep]_vars

\* C36: in facilitator mode no settle request for a nonce is in flight while
\* another settle request for that nonce is in flight or after one has
\* succeeded.
C36_SettledOnce ==
  \A s, t \in Slots :
    (/\ s # t
     /\ req[s].pc = "settle"
     /\ req[t].proof.nonce = req[s].proof.nonce)
    => (req[t].pc # "settle" /\ req[t].settleRes # "success")

\* C37: a proof is accepted for a path only if its nonce was issued for that
\* path: the endpoint recorded in the nonce's entry equals the path of the
\* request whose proof was accepted.
C37_RedeemedWhereIssued ==
  \A s \in Slots :
    (gate = "proof" /\ req[s].header = "proof" /\ req[s].validation.valid)
    => \A e \in nonceStore :
         e.nonce = req[s].proof.nonce => e.endpoint = req[s].path

\* ------------------------------------------------- DatabaseService alone
\* The singleton: pool is 0 for null and k for the k-th Pool constructed;
\* calls is the list of the calls that have completed; threw tells whether
\* the last query or getClient threw 'Database not connected'.
MaxDbCalls == 4
NoPool == 0

DbInit ==
  /\ GateAtRest
  /\ now = 0
  /\ mockCall = NoMockCall
  /\ chain = NoChainCall
  /\ retry = NoRetryCall
  /\ proc = NoProcess
  /\ \E urlConfigured \in BOOLEAN :
       db = [pc |-> "idle", urlConfigured |-> urlConfigured, pool |-> NoPool,
             isConnected |-> FALSE, created |-> 0, calls |-> << >>, threw |-> FALSE]

\* connect(), up to its await: without a URL it returns at once, otherwise
\* it constructs a Pool and waits for the test connection.
AfterConnectCalled(d) ==
  IF ~d.urlConfigured THEN [d EXCEPT !.calls = Append(d.calls, "connect")]
  ELSE [d EXCEPT !.pool = d.created + 1, !.created = d.created + 1, !.pc = "connecting"]

DbConnect ==
  /\ db.pc = "idle"
  /\ Len(db.calls) < MaxDbCalls
  /\ db' = AfterConnectCalled(db)
  /\ UNCHANGED <<gateVars, mockCall, chain, retry, proc>>

\* The test connection has succeeded, or something in the try block threw
\* and the catch block ran.
AfterConnectTried(d, ok) ==
  IF ok
  THEN [d EXCEPT !.isConnected = TRUE, !.pc = "idle", !.calls = Append(d.calls, "connect")]
  ELSE [d EXCEPT !.pool = NoPool, !.pc = "idle", !.calls = Append(d.calls, "connectFailed")]

DbConnectTried ==
  /\ db.pc = "connecting"
  /\ \E ok \in BOOLEAN : db' = AfterConnectTried(db, ok)
  /\ UNCHANGED <<gateVars, mockCall, chain, retry, proc>>

\* disconnect(): with a pool, end it and clear both fields; without one,
\* nothing.
AfterDisconnect(d) ==
  IF d.pool # NoPool
  THEN [d EXCEPT !.pool = NoPool, !.isConnected = FALSE,
                 !.calls = Append(d.calls, "disconnect")]
  ELSE [d EXCEPT !.calls = Append(d.calls, "disconnect")]

DbDisconnect ==
  /\ db.pc = "idle"
  /\ Len(db.calls) < MaxDbCalls
  /\ db' = AfterDisconnect(db)
  /\ UNCHANGED <<gateVars, mockCall, chain, retry, proc>>

\* query() and getClient() start with the same guard.
AfterGuardedCall(d, call) ==
  [d EXCEPT !.threw = (d.pool = NoPool \/ ~d.isConnected), !.calls = Append(d.calls, call)]

DbGuardedCall ==
  /\ db.pc \in {"idle", "connecting"}
  /\ Len(db.calls) < MaxDbCalls
  /\ \E call \in {"query", "getClient"} : db' = AfterGuardedCall(db, call)
  /\ UNCHANGED <<gateVars, mockCall, chain, retry, proc>>

DbNext == DbConnect \/ DbConnectTried \/ DbDisconnect \/ DbGuardedCall

DbSpec == DbInit /\ [][DbNext]_vars

LastCall(d) == IF d.calls = << >> THEN "none" ELSE d.calls[Len(d.calls)]

\* C38: connected is true only if a pool exists: while it reports true a
\* query or getClient does not throw 'Database not connected', and after a
\* disconnect it is false.
C38_ConnectedMeansPool ==
  /\ db.isConnected => db.pool # NoPool
  /\ (db.isConnected /\ LastCall(db) \in {"query", "getClient"}) => ~db.threw
  /\ (db.pc = "idle" /\ LastCall(db) = "disconnect") => ~db.isConnected

\* --------------------------------------------------------- withRetry alone
DefaultMaxRetries == 3
DefaultInitialDelay == 1000
DefaultMaxDelay == 10000
DefaultBackoffMultiplier == 2

\* The configurations a call is made with: the defaults, overridden in part.
MaxRetriesBound == 5
RetryConfigs ==
  [maxRetries : 0..MaxRetriesBound,
   initialDelay : {DefaultInitialDelay, DefaultMaxDelay},
   maxDelay : {DefaultMaxDelay},
   backoffMultiplier : {1, DefaultBackoffMultiplier}]

\* What the operation can throw, and isRetryableError of it: an RPCError
\* carries its own flag; otherwise the message or the code decides.
OperationErrors ==
  {"rpcRetryable", "rpcNotRetryable", "timeout", "rateLimit", "server503",
   "codeEconnrefused", "invalidParams"}

isRetryableError(error) ==
  IF error = "rpcRetryable" THEN TRUE
  ELSE IF error = "rpcNotRetryable" THEN FALSE
  ELSE error \in {"timeout", "rateLimit", "server503", "codeEconnrefused"}

Min(a, b) == IF a < b THEN a ELSE b

RetryInit ==
  /\ GateAtRest
  /\ now = 0
  /\ mockCall = NoMockCall
  /\ chain = NoChainCall
  /\ db = NoDatabase
  /\ proc = NoProcess
  /\ \E config \in RetryConfigs :
       retry = [pc |-> "call", config |-> config, attempt |-> 0,
                delay |-> config.initialDelay, calls |-> 0, sleeps |-> << >>,
                allRetryable |-> TRUE, outcome |-> "none", lastError |-> "",
                thrownRetryable |-> FALSE]

\* One await of operation() has ended: a result is returned; an error that
\* is not retryable, or any error on the last attempt, is thrown as an
\* RPCError; otherwise the loop sleeps.
AfterOperation(c, result) ==
  LET called == [c EXCEPT !.calls = c.calls + 1]
  IN IF result = "ok" THEN [called EXCEPT !.pc = "done", !.outcome = "returned"]
     ELSE LET failed == [called EXCEPT
                           !.lastError = result,
                           !.allRetryable = c.allRetryable /\ isRetryableError(result)]
          IN IF ~isRetryableError(result) \/ c.attempt = c.config.maxRetries
             THEN [failed EXCEPT !.pc = "done", !.outcome = "thrown",
                                 !.thrownRetryable = isRetryableError(result)]
             ELSE [failed EXCEPT !.pc = "sleep"]

RetryCall ==
  /\ retry.pc = "call"
  /\ \E result \in {"ok"} \cup OperationErrors : retry' = AfterOperation(retry, result)
  /\ UNCHANGED <<gateVars, mockCall, chain, db, proc>>

\* Mutant of AfterSleepDelay: the delay grows without the cap.
AfterSleepDelay_Uncapped(c) ==
  [c EXCEPT !.pc = "call", !.attempt = c.attempt + 1,
            !.sleeps = Append(c.sleeps, c.delay),
            !.delay = c.delay * c.config.backoffMultiplier]

\* sleep(delay) has ended: the next delay is computed and the loop takes
\* its next turn.
AfterSleepDelay(c) ==
  [c EXCEPT !.pc = "call", !.attempt = c.attempt + 1,
            !.sleeps = Append(c.sleeps, c.delay),
            !.delay = Min(c.delay * c.config.backoffMultiplier, c.config.maxDelay)]

RetrySleep ==
  /\ retry.pc = "sleep"
  /\ retry' = AfterSleepDelay(retry)
  /\ UNCHANGED <<gateVars, mockCall, chain, db, proc>>

RetryNext == RetryCall \/ RetrySleep

\* Every await of the call is eventually resumed.
RetrySpec == RetryInit /\ [][RetryNext]_vars /\ WF_vars(RetryNext)

RECURSIVE Power(_, _)
Power(base, exponent) == IF exponent = 0 THEN 1 ELSE base * Power(base, exponent - 1)

\* The k-th delay of a call: initialDelay times backoffMultiplier^(k-1),
\* capped at maxDelay.
C39_Delay(config, k) ==
  Min(config.initialDelay * Power(config.backoffMultiplier, k - 1), config.maxDelay)

C39_Bounds ==
  retry.pc # "none"
  => (/\ retry.calls <= retry.config.maxRetries + 1
      /\ Len(retry.sleeps) = retry.attempt
      /\ retry.calls = retry.attempt + (IF retry.pc = "call" THEN 0 ELSE 1)
      /\ \A k \in 1..Len(retry.sleeps) :
           /\ retry.sleeps[k] = C39_Delay(retry.config, k)
           /\ retry.sleeps[k] <= retry.config.maxDelay
      /\ retry.pc = "sleep" => (retry.allRetryable /\ retry.attempt < retry.config.maxRetries)
      /\ retry.outcome = "returned" => (retry.pc = "done" /\ retry.allRetryable)
      /\ retry.outcome = "thrown"
           => (/\ retry.pc = "done"
               /\ retry.thrownRetryable = retry.allRetryable
               /\ retry.allRetryable => retry.calls = retry.config.maxRetries + 1
               /\ ~retry.allRetryable => ~isRetryableError(retry.lastError)))

\* Once the call has returned or thrown, the operation is not called again.
C39_NoCallAfterEnd ==
  retry.pc = "done" => retry' = retry

\* C39: withRetry calls the operation at most maxRetries+1 times and ends:
\* with the first success, with an RPCError at the first error that is not
\* retryable, or with an RPCError after the last attempt; the k-th delay is
\* initialDelay * backoffMultiplier^(k-1), capped at maxDelay.
C39_RetryBoundedAndEnds ==
  /\ []C39_Bounds
  /\ [][C39_NoCallAfterEnd]_vars
  /\ <>(retry.pc = "done")

\* Every attempt failed with a retryable error and the cap was reached.
C39_Witness ==
  /\ retry.pc = "done" /\ retry.outcome = "thrown" /\ retry.thrownRetryable
  /\ retry.calls = MaxRetriesBound + 1
  /\ retry.config.initialDelay = DefaultInitialDelay
  /\ retry.config.backoffMultiplier = DefaultBackoffMultiplier
  /\ \E k \in 2..Len(retry.sleeps) :
       /\ retry.sleeps[k] = DefaultMaxDelay
       /\ retry.sleeps[k - 1] < DefaultMaxDelay
       /\ retry.sleeps[k - 1] * DefaultBackoffMultiplier > DefaultMaxDelay

\* ------------------------------------------- the server process, shutdown
\* The process once start() has registered its handlers: triggers is the
\* list of shutdown triggers received, runs counts how often the body of
\* shutdown was entered past its guard.
MaxTriggers == 3
ShutdownTriggers == {"SIGTERM", "SIGINT", "UNCAUGHT_EXCEPTION", "UNHANDLED_REJECTION"}

ProcInit ==
  /\ GateAtRest
  /\ now = 0
  /\ mockCall = NoMockCall
  /\ chain = NoChainCall
  /\ db = NoDatabase
  /\ retry = NoRetryCall
  /\ proc = [pc |-> "listening", isShuttingDown |-> FALSE, accepting |-> TRUE,
             cacheDisconnected |-> FALSE, dbDisconnected |-> FALSE,
             triggers |-> << >>, runs |-> 0, exitCode |-> 0 - 1]

\* Mutant of ShutdownCalled: no isShuttingDown guard.
ShutdownCalled_NoGuard(p, signal) ==
  [p EXCEPT !.triggers = Append(p.triggers, signal),
            !.isShuttingDown = TRUE, !.runs = p.runs + 1, !.pc = "closing"]

\* shutdown(signal) up to its first await: the guard, the flag, and the
\* call of app.close().
ShutdownCalled(p, signal) ==
  IF p.isShuttingDown THEN [p EXCEPT !.triggers = Append(p.triggers, signal)]
  ELSE [p EXCEPT !.triggers = Append(p.triggers, signal),
                 !.isShuttingDown = TRUE, !.runs = p.runs + 1, !.pc = "closing"]

ShutdownTrigger ==
  /\ proc.pc \in {"listening", "closing", "disconnecting"}
  /\ Len(proc.triggers) < MaxTriggers
  /\ \E signal \in ShutdownTriggers : proc' = ShutdownCalled(proc, signal)
  /\ UNCHANGED <<gateVars, mockCall, chain, db, retry>>

\* app.close() has settled: on success both disconnects are called
\* (cacheService.disconnect has no await and is done at once,
\* databaseService.disconnect waits for the pool to end); on failure the
\* catch block exits with 1.
AfterAppClose(p, ok) ==
  IF ok THEN [p EXCEPT !.accepting = FALSE, !.cacheDisconnected = TRUE, !.pc = "disconnecting"]
  ELSE [p EXCEPT !.pc = "exited", !.exitCode = 1]

AppClosed ==
  /\ proc.pc = "closing"
  /\ \E ok \in BOOLEAN : proc' = AfterAppClose(proc, ok)
  /\ UNCHANGED <<gateVars, mockCall, chain, db, retry>>

\* Promise.all of the disconnects has settled; process.exit follows.
AfterDisconnects(p, ok) ==
  IF ok THEN [p EXCEPT !.dbDisconnected = TRUE, !.pc = "exited", !.exitCode = 0]
  ELSE [p EXCEPT !.pc = "exited", !.exitCode = 1]

ServicesDisconnected ==
  /\ proc.pc = "disconnecting"
  /\ \E ok \in BOOLEAN : proc' = AfterDisconnects(proc, ok)
  /\ UNCHANGED <<gateVars, mockCall, chain, db, retry>>

ProcNext == ShutdownTrigger \/ AppClosed \/ ServicesDisconnected

ProcSpec == ProcInit /\ [][ProcNext]_vars

\* The shutdown body was entered at most once; the cache and the database
\* are disconnected only after the server stopped accepting connections.
C40_OnceAndInOrder ==
  proc.pc # "none"
  => (/\ proc.runs <= 1
      /\ proc.runs = 1 <=> proc.isShuttingDown
      /\ proc.isShuttingDown <=> proc.triggers # << >>
      /\ (proc.cacheDisconnected \/ proc.dbDisconnected) => ~proc.accepting
      /\ proc.pc = "closing" => (proc.accepting /\ ~proc.cacheDisconnected))

\* A trigger that arrives while a shutdown is under way changes nothing
\* but the list of triggers received.
C40_LaterTriggerStep ==
  (proc.isShuttingDown /\ proc'.triggers # proc.triggers)
  => proc' = [proc EXCEPT !.triggers = proc'.triggers]

====
